---- MODULE Spec2Model ----
(***************************************************************************)
(* LocalVault: a browser-local password manager (src/script.js).           *)
(*                                                                         *)
(* The model follows src/script.js: the in-memory list currentPasswords,   *)
(* the IndexedDB object store 'passwords' (keyPath 'id', autoIncrement),   *)
(* and the asynchronous requests between them.  Every request the page     *)
(* issues opens its own transaction on the one object store; IndexedDB     *)
(* runs transactions with overlapping scope in the order of their creation *)
(* and a transaction stays live until its callbacks have run, so the       *)
(* pending requests form a FIFO queue whose head is executed and answered  *)
(* (onsuccess / onerror / oncomplete) in one step.                         *)
(*                                                                         *)
(* Text is a sequence of UTF-16 code units (numbers), so that trimming,    *)
(* lower-casing and comparison are computed as the code computes them.     *)
(***************************************************************************)
EXTENDS Integers, Sequences, FiniteSets, TLC

VARIABLES
    dbState,                 \* "opening" | "open" | "failed": db is set only when "open"
    store,                   \* records of the object store (one per key)
    keyGen,                  \* the object store's key generator (next key)
    queue,                   \* pending transactions, oldest first
    currentPasswords,        \* the in-memory list (the Cache)
    sortColumn,
    sortDirection,
    isAwaitingConfirmation,  \* the clear modal's pending flag
    editEntryId,             \* id shown in the open edit modal, NoId when hidden
    loaded,                  \* history: a getAll has succeeded at least once
    last,                    \* history: the store callback that ran last, "user" after a user's action
    resync                   \* history: how far a Delete or Update has run with no other step between

vars == <<dbState, store, keyGen, queue, currentPasswords, sortColumn,
          sortDirection, isAwaitingConfirmation, editEntryId, loaded, last, resync>>

----------------------------------------------------------------------------
(* Bounds of the model *)

MaxKey == 2        \* keys handed out by the key generator stay <= MaxKey
MaxQueue == 2      \* pending transactions at any time
MaxImport == 1     \* records in one imported file

----------------------------------------------------------------------------
(* Text *)

\* An entry before the store gave it a key has no id property.
NoId == 0
\* A record read from a delimited-text file has no createdAt property.
NoTime == 0

StrEmpty == <<>>
StrA == <<97>>            \* "a"
StrB == <<66>>            \* "B"
StrSpA == <<32, 97>>      \* " a"
StrU == <<117>>           \* "u"
StrV == <<118>>           \* "v"
StrP == <<112>>           \* "p"
StrQ == <<113>>           \* "q"
StrSp == <<32>>           \* " "
StrCapA == <<65>>         \* "A"

\* White space as String.prototype.trim sees it (tab, LF, VT, FF, CR, space).
IsSpace(c) == c \in {9, 10, 11, 12, 13, 32}

RECURSIVE TrimStart(_)
TrimStart(s) ==
    IF s # <<>> /\ IsSpace(Head(s)) THEN TrimStart(Tail(s)) ELSE s

RECURSIVE TrimEnd(_)
TrimEnd(s) ==
    IF s # <<>> /\ IsSpace(s[Len(s)]) THEN TrimEnd(SubSeq(s, 1, Len(s) - 1)) ELSE s

Trim(s) == TrimEnd(TrimStart(s))

\* String.prototype.toLowerCase on the ASCII range.
ToLowerCase(s) == [i \in 1..Len(s) |-> IF s[i] \in 65..90 THEN s[i] + 32 ELSE s[i]]

\* The < of two strings: code unit by code unit, a proper prefix is smaller.
RECURSIVE StrLess(_, _)
StrLess(a, b) ==
    IF b = <<>> THEN FALSE
    ELSE IF a = <<>> THEN TRUE
    ELSE IF Head(a) < Head(b) THEN TRUE
    ELSE IF Head(a) > Head(b) THEN FALSE
    ELSE StrLess(Tail(a), Tail(b))

\* Faulty variant: a blank password counts as empty.
TruthyAfterTrim(s) == Trim(s) # StrEmpty

\* A string is truthy when it is not empty.
Truthy(s) == s # <<>>

----------------------------------------------------------------------------
(* Entries *)

Entry(id, website, username, password, createdAt) ==
    [id |-> id, website |-> website, username |-> username,
     password |-> password, createdAt |-> createdAt]

Ids(list) == {list[i].id : i \in 1..Len(list)}
Range(list) == {list[i] : i \in 1..Len(list)}

\* findIndex(p => p.id === id): the first index, 0 standing for -1.
FindIndex(list, id) ==
    IF \E i \in 1..Len(list) : list[i].id = id
    THEN CHOOSE i \in 1..Len(list) :
            /\ list[i].id = id
            /\ \A j \in 1..(i - 1) : list[j].id # id
    ELSE 0

\* splice(index, 1)
Splice(list, index) ==
    SubSeq(list, 1, index - 1) \o SubSeq(list, index + 1, Len(list))

----------------------------------------------------------------------------
(* Sorting: sortAndRenderPasswords *)

\* Faulty variant: the comparator compares the values as they are written.
ComparatorCaseSensitive(a, b, col, dir) ==
    LET comparison == IF StrLess(b[col], a[col]) THEN 1
                      ELSE IF StrLess(a[col], b[col]) THEN -1
                      ELSE 0
    IN  IF dir = "desc" THEN comparison * (-1) ELSE comparison

\* Faulty variant: the direction is not applied to the comparison.
ComparatorIgnoresDirection(a, b, col, dir) ==
    LET valA == ToLowerCase(a[col])
        valB == ToLowerCase(b[col])
    IN  IF StrLess(valB, valA) THEN 1
        ELSE IF StrLess(valA, valB) THEN -1
        ELSE 0

\* The comparator passed to Array.prototype.sort.
Comparator(a, b, col, dir) ==
    LET valA == ToLowerCase(a[col])
        valB == ToLowerCase(b[col])
        comparison == IF StrLess(valB, valA) THEN 1
                      ELSE IF StrLess(valA, valB) THEN -1
                      ELSE 0
    IN  IF dir = "desc" THEN comparison * (-1) ELSE comparison

\* Faulty variant: an unstable sort, an element goes before its equals.
RECURSIVE InsertSortedUnstable(_, _, _, _)
InsertSortedUnstable(e, sorted, col, dir) ==
    IF sorted = <<>> THEN <<e>>
    ELSE IF Comparator(e, Head(sorted), col, dir) <= 0 THEN <<e>> \o sorted
    ELSE <<Head(sorted)>> \o InsertSortedUnstable(e, Tail(sorted), col, dir)

\* Array.prototype.sort is stable: an element goes behind every element that
\* does not compare greater than it.
RECURSIVE InsertSorted(_, _, _, _)
InsertSorted(e, sorted, col, dir) ==
    IF sorted = <<>> THEN <<e>>
    ELSE IF Comparator(e, Head(sorted), col, dir) < 0 THEN <<e>> \o sorted
    ELSE <<Head(sorted)>> \o InsertSorted(e, Tail(sorted), col, dir)

RECURSIVE StableSort(_, _, _)
StableSort(list, col, dir) ==
    IF list = <<>> THEN <<>>
    ELSE InsertSorted(list[Len(list)],
                      StableSort(SubSeq(list, 1, Len(list) - 1), col, dir),
                      col, dir)

\* A value that is not a string, such as the number 5 of a JSON file, is
\* written as a sequence with a negative element: a code unit is never
\* negative.
NumFive == <<-5>>
IsString(v) == \A i \in 1..Len(v) : v[i] >= 0

\* a[sortColumn].toLowerCase() throws a TypeError for a value that is not a
\* string; the comparator is called once there are two elements.
SortThrows(list, col) ==
    /\ Len(list) >= 2
    /\ \E i \in 1..Len(list) : ~IsString(list[i][col])

\* currentPasswords.sort(comparator): a throw of the comparator ends the sort
\* and leaves the array as it was.
SortList(list, col, dir) ==
    IF SortThrows(list, col) THEN list ELSE StableSort(list, col, dir)

IsSortedBy(list, col, dir) ==
    \A i \in 1..(Len(list) - 1) : Comparator(list[i], list[i + 1], col, dir) <= 0

----------------------------------------------------------------------------
(* The object store: keyPath 'id', autoIncrement *)

StoreIds(st) == {r.id : r \in st}

\* getAll: every record, in ascending key order.
RECURSIVE GetAll(_)
GetAll(st) ==
    IF st = {} THEN <<>>
    ELSE LET first == CHOOSE r \in st : \A o \in st : r.id <= o.id
         IN  <<first>> \o GetAll(st \ {first})

\* add(value): a value without id gets the generator's key; a value with an id
\* keeps it, fails (ConstraintError) when the key exists, and pushes the
\* generator past it.
StoreAdd(db, value) ==
    IF value.id = NoId
    THEN [ok |-> TRUE,
          store |-> db.store \cup {[value EXCEPT !.id = db.keyGen]},
          keyGen |-> db.keyGen + 1,
          key |-> db.keyGen]
    ELSE IF value.id \in StoreIds(db.store)
    THEN [ok |-> FALSE, store |-> db.store, keyGen |-> db.keyGen, key |-> NoId]
    ELSE [ok |-> TRUE,
          store |-> db.store \cup {value},
          keyGen |-> IF value.id >= db.keyGen THEN value.id + 1 ELSE db.keyGen,
          key |-> value.id]

\* The adds of one import transaction, in order; the first failing add aborts.
RECURSIVE StoreAddAll(_, _)
StoreAddAll(db, values) ==
    IF values = <<>> THEN [ok |-> TRUE, store |-> db.store, keyGen |-> db.keyGen, key |-> NoId]
    ELSE LET r == StoreAdd(db, Head(values))
         IN  IF r.ok THEN StoreAddAll(r, Tail(values)) ELSE r

\* put(value): replaces the record at value.id, or inserts it (upsert).
StorePut(st, value) == {r \in st : r.id # value.id} \cup {value}

\* delete(key): removes the record, if any.
StoreDelete(st, key) == {r \in st : r.id # key}

----------------------------------------------------------------------------
(* Pending transactions *)

NoEntry == Entry(NoId, StrEmpty, StrEmpty, StrEmpty, NoTime)

\* One transaction of the page.  kind: "getAll" | "add" | "put" | "delete" |
\* "clear" | "import"; id, entry and values are the request's argument.
Request(kind, id, entry, values) ==
    [kind |-> kind, id |-> id, entry |-> entry, values |-> values]

\* resync.stage: "none"; "removed" / "overwritten" right after the optimistic
\* step on resync.id; "deleteFailed" / "putFailed" when the store's error came
\* next; "reloadedAfterDelete" / "reloadedAfterPut" when the getAll that the
\* error handler issued succeeded next.
Resync(stage, id) == [stage |-> stage, id |-> id]
NoResync == Resync("none", NoId)

HeadIs(kind) == queue # <<>> /\ Head(queue).kind = kind

\* Keys the pending adds will still draw from the key generator.
RECURSIVE FreshKeysNeeded(_)
FreshKeysNeeded(q) ==
    IF q = <<>> THEN 0
    ELSE (IF Head(q).kind = "add" THEN 1
          ELSE IF Head(q).kind = "import"
               THEN Cardinality({i \in 1..Len(Head(q).values) : Head(q).values[i].id = NoId})
               ELSE 0)
         + FreshKeysNeeded(Tail(q))

\* The model's bound on what may be issued: room in the queue, keys below MaxKey.
CanIssue(freshKeys) ==
    /\ Len(queue) < MaxQueue
    /\ keyGen + FreshKeysNeeded(queue) + freshKeys <= MaxKey + 1

----------------------------------------------------------------------------
(* Inputs *)

Columns == {"website", "username"}
Times == {1}
WebsiteInputs == {StrEmpty, StrA, StrSpA}
UsernameInputs == {StrU, StrSp}
PasswordInputs == {StrP, StrEmpty}
\* What the user leaves in the edit modal's username and password fields.
EditInputs ==
    { <<StrU, StrP>>, <<StrU, StrQ>>, <<StrV, StrP>>, <<StrSp, StrQ>>, <<StrU, StrEmpty>> }
\* The rows renderPasswords has drawn, each with its edit and delete button:
\* the table is redrawn from the list after every load, add, clear and sort,
\* and deletePassword removes the row it splices out.
RenderedIds == Ids(currentPasswords)

\* Records a parsed import file may hold: one without an id, one as the JSON
\* export wrote it (with its id), and one that fails the validity filter.
ImportRecords ==
    { Entry(NoId, StrA, StrU, StrP, 1),
      Entry(1, StrA, StrU, StrP, 1),
      Entry(NoId, StrEmpty, StrU, StrP, NoTime) }

RECURSIVE SeqsUpTo(_, _)
SeqsUpTo(S, n) ==
    IF n = 0 THEN {<<>>}
    ELSE LET shorter == SeqsUpTo(S, n - 1)
         IN  shorter \cup {Append(s, x) : s \in {t \in shorter : Len(t) = n - 1}, x \in S}

ImportFiles == SeqsUpTo(ImportRecords, MaxImport)

----------------------------------------------------------------------------
(* Initial state: the page has loaded, indexedDB.open is pending *)

Init ==
    /\ dbState = "opening"
    /\ store = {}
    /\ keyGen = 1
    /\ queue = <<>>
    /\ currentPasswords = <<>>
    /\ sortColumn = "website"
    /\ sortDirection = "asc"
    /\ isAwaitingConfirmation = FALSE
    /\ editEntryId = NoId
    /\ loaded = FALSE
    /\ last = "user"
    /\ resync = NoResync

----------------------------------------------------------------------------
(* openDB and window.onload *)

\* loadPasswords(): one readonly transaction with a getAll request.
LoadRequest == Request("getAll", NoId, NoEntry, <<>>)

OpenSuccess ==
    /\ dbState = "opening"
    /\ dbState' = "open"
    /\ queue' = Append(queue, LoadRequest)
    /\ last' = "OpenSuccess"
    /\ resync' = NoResync
    /\ UNCHANGED <<store, keyGen, currentPasswords, sortColumn, sortDirection,
                   isAwaitingConfirmation, editEntryId, loaded>>

OpenError ==
    /\ dbState = "opening"
    /\ dbState' = "failed"
    /\ last' = "OpenError"
    /\ resync' = NoResync
    /\ UNCHANGED <<store, keyGen, queue, currentPasswords, sortColumn, sortDirection,
                   isAwaitingConfirmation, editEntryId, loaded>>

----------------------------------------------------------------------------
(* loadPasswords callbacks *)

\* Faulty variant: the result is appended to the list instead of replacing it.
LoadOnSuccessAppends(list, result) == SortList(list \o result, sortColumn, sortDirection)

\* Faulty variant: the result is shown as the Store returned it, unsorted.
LoadOnSuccessUnsorted(list, result) == result

\* request.onsuccess: the list is replaced by the result, then sorted.
LoadOnSuccess(list, result) == SortList(result, sortColumn, sortDirection)

LoadSuccess ==
    /\ HeadIs("getAll")
    /\ currentPasswords' = LoadOnSuccess(currentPasswords, GetAll(store))
    /\ queue' = Tail(queue)
    /\ loaded' = TRUE
    /\ last' = "LoadSuccess"
    /\ resync' = IF resync.stage = "deleteFailed" THEN Resync("reloadedAfterDelete", resync.id)
                  ELSE IF resync.stage = "putFailed" THEN Resync("reloadedAfterPut", resync.id)
                  ELSE NoResync
    /\ UNCHANGED <<dbState, store, keyGen, sortColumn, sortDirection,
                   isAwaitingConfirmation, editEntryId>>

\* Faulty variant: a failed Load empties the list.
LoadOnErrorEmpties(list) == <<>>

\* request.onerror: console.error only.
LoadOnError(list) == list

LoadError ==
    /\ HeadIs("getAll")
    /\ currentPasswords' = LoadOnError(currentPasswords)
    /\ queue' = Tail(queue)
    /\ last' = "LoadError"
    /\ resync' = NoResync
    /\ UNCHANGED <<dbState, store, keyGen, sortColumn, sortDirection,
                   isAwaitingConfirmation, editEntryId, loaded>>

----------------------------------------------------------------------------
(* Add: the save button and addPassword *)

\* Faulty variant: the listener does not test db before it saves.
SaveClickWithoutDb(website, username, password, now) ==
    LET w == Trim(website)
        u == Trim(username)
        newEntry == Entry(NoId, w, u, password, now)
    IN  /\ IF Truthy(w) /\ Truthy(u) /\ Truthy(password)
           THEN /\ CanIssue(1)
                /\ queue' = Append(queue, Request("add", NoId, newEntry, <<>>))
           ELSE queue' = queue
        /\ last' = "user"
        /\ resync' = NoResync
        /\ UNCHANGED <<dbState, store, keyGen, currentPasswords, sortColumn,
                       sortDirection, isAwaitingConfirmation, editEntryId, loaded>>

\* The save button's listener: trims website and username, requires all three.
SaveClick(website, username, password, now) ==
    LET w == Trim(website)
        u == Trim(username)
        newEntry == Entry(NoId, w, u, password, now)
    IN  /\ IF dbState = "open" /\ Truthy(w) /\ Truthy(u) /\ Truthy(password)
           THEN /\ CanIssue(1)
                /\ queue' = Append(queue, Request("add", NoId, newEntry, <<>>))
           ELSE queue' = queue
        /\ last' = "user"
        /\ resync' = NoResync
        /\ UNCHANGED <<dbState, store, keyGen, currentPasswords, sortColumn,
                       sortDirection, isAwaitingConfirmation, editEntryId, loaded>>

\* Faulty variant: the returned key is not assigned to entry.id.
AddOnSuccessWithoutId(list, entry, key) ==
    SortList(Append(list, entry), sortColumn, sortDirection)

\* addPassword's request.onsuccess: entry.id = key; push; sort.
AddOnSuccess(list, entry, key) ==
    SortList(Append(list, [entry EXCEPT !.id = key]), sortColumn, sortDirection)

AddSuccess ==
    /\ HeadIs("add")
    /\ LET r == StoreAdd([store |-> store, keyGen |-> keyGen], Head(queue).entry)
       IN  /\ r.ok
           /\ store' = r.store
           /\ keyGen' = r.keyGen
           /\ currentPasswords' = AddOnSuccess(currentPasswords, Head(queue).entry, r.key)
           /\ last' = "AddSuccess"
           /\ resync' = NoResync
    /\ queue' = Tail(queue)
    /\ UNCHANGED <<dbState, sortColumn, sortDirection, isAwaitingConfirmation,
                   editEntryId, loaded>>

\* Faulty variant: the candidate is pushed although the add failed.
AddOnErrorPushes(list, entry) == Append(list, entry)

\* addPassword's request.onerror: console.error only.
AddOnError(list, entry) == list

AddError ==
    /\ HeadIs("add")
    /\ currentPasswords' = AddOnError(currentPasswords, Head(queue).entry)
    /\ queue' = Tail(queue)
    /\ last' = "AddError"
    /\ resync' = NoResync
    /\ UNCHANGED <<dbState, store, keyGen, sortColumn, sortDirection,
                   isAwaitingConfirmation, editEntryId, loaded>>

----------------------------------------------------------------------------
(* Delete: a row's delete button and deletePassword *)

\* Faulty variant: the entry stays in the list until the Store answers.
DeleteNotOptimistic(list, idToDelete) == list

\* Faulty variant: splice(index, 1) without the test for -1 removes the last entry.
DeleteWithoutNotFoundTest(list, idToDelete) ==
    LET index == FindIndex(list, idToDelete)
    IN  IF index # 0 THEN Splice(list, index)
        ELSE IF list # <<>> THEN Splice(list, Len(list)) ELSE list

\* The optimistic step of deletePassword: splice the entry out if it is found.
DeleteOptimistic(list, idToDelete) ==
    LET index == FindIndex(list, idToDelete)
    IN  IF index # 0 THEN Splice(list, index) ELSE list

DeleteClick(idToDelete) ==
    /\ dbState = "open"
    /\ Len(queue) < MaxQueue
    /\ currentPasswords' = DeleteOptimistic(currentPasswords, idToDelete)
    /\ queue' = Append(queue, Request("delete", idToDelete, NoEntry, <<>>))
    /\ last' = "user"
    /\ resync' = IF FindIndex(currentPasswords, idToDelete) # 0
                  THEN Resync("removed", idToDelete) ELSE NoResync
    /\ UNCHANGED <<dbState, store, keyGen, sortColumn, sortDirection,
                   isAwaitingConfirmation, editEntryId, loaded>>

\* The delete button of a rendered row.
DeleteRowClick == \E id \in RenderedIds : DeleteClick(id)

\* request.onsuccess: console.log only.
DeleteSuccess ==
    /\ HeadIs("delete")
    /\ store' = StoreDelete(store, Head(queue).id)
    /\ queue' = Tail(queue)
    /\ last' = "DeleteSuccess"
    /\ resync' = NoResync
    /\ UNCHANGED <<dbState, keyGen, currentPasswords, sortColumn, sortDirection,
                   isAwaitingConfirmation, editEntryId, loaded>>

\* What a failed delete or put leaves pending: alert, then loadPasswords().
\* Faulty variant: the failure handler asks for the Load twice.
ReloadTwiceAfterError(rest) == Append(Append(rest, LoadRequest), LoadRequest)

ReloadAfterError(rest) == Append(rest, LoadRequest)

DeleteError ==
    /\ HeadIs("delete")
    /\ queue' = ReloadAfterError(Tail(queue))
    /\ last' = "DeleteError"
    /\ resync' = IF resync.stage = "removed"
                  THEN Resync("deleteFailed", resync.id) ELSE NoResync
    /\ UNCHANGED <<dbState, store, keyGen, currentPasswords, sortColumn, sortDirection,
                   isAwaitingConfirmation, editEntryId, loaded>>

----------------------------------------------------------------------------
(* Edit: editEntry, the edit modal's save button and updatePassword *)

\* editEntry: fills the modal from the list entry and shows it.
EditClick(idToEdit) ==
    /\ dbState = "open"
    /\ editEntryId' = IF FindIndex(currentPasswords, idToEdit) # 0
                      THEN idToEdit ELSE editEntryId
    /\ last' = "user"
    /\ resync' = NoResync
    /\ UNCHANGED <<dbState, store, keyGen, queue, currentPasswords, sortColumn,
                   sortDirection, isAwaitingConfirmation, loaded>>

\* The edit button of a rendered row.
EditRowClick == \E id \in RenderedIds : EditClick(id)

\* Faulty variant: the list is left alone until the store answers.
UpdateNotOptimistic(list, entry) == list

\* The optimistic step of updatePassword: overwrite the entry if it is found.
UpdateOptimistic(list, entry) ==
    LET index == FindIndex(list, entry.id)
    IN  IF index # 0 THEN [list EXCEPT ![index] = entry] ELSE list

\* updatePassword(entry): optimistic overwrite, then store.put(entry).
UpdatePassword(entry) ==
    /\ currentPasswords' = UpdateOptimistic(currentPasswords, entry)
    /\ queue' = Append(queue, Request("put", entry.id, entry, <<>>))

\* Faulty variant: the listener does not test whether anything was changed.
EditSaveAcceptsUnchanged(list, id, username, password) ==
    /\ FindIndex(list, id) # 0
    /\ Truthy(Trim(username))
    /\ Truthy(password)

\* Whether the edit-save listener goes on to call updatePassword.
EditSaveAccepts(list, id, username, password) ==
    LET index == FindIndex(list, id)
        newUsername == Trim(username)
    IN  /\ index # 0
        /\ ~(newUsername = list[index].username /\ password = list[index].password)
        /\ Truthy(newUsername)
        /\ Truthy(password)

\* Whether the listener hides the modal: after "no changes" and after a save.
EditSaveHides(list, id, username, password) ==
    LET index == FindIndex(list, id)
        newUsername == Trim(username)
    IN  /\ index # 0
        /\ \/ (newUsername = list[index].username /\ password = list[index].password)
           \/ (Truthy(newUsername) /\ Truthy(password))

EditSaveClick(username, password) ==
    /\ dbState = "open"
    /\ editEntryId # NoId
    /\ IF EditSaveAccepts(currentPasswords, editEntryId, username, password)
       THEN LET originalEntry == currentPasswords[FindIndex(currentPasswords, editEntryId)]
                updatedEntry == [originalEntry EXCEPT !.username = Trim(username),
                                                      !.password = password]
            IN  /\ Len(queue) < MaxQueue
                /\ UpdatePassword(updatedEntry)
       ELSE UNCHANGED <<currentPasswords, queue>>
    /\ editEntryId' = IF EditSaveHides(currentPasswords, editEntryId, username, password)
                      THEN NoId ELSE editEntryId
    /\ last' = "user"
    /\ resync' = IF EditSaveAccepts(currentPasswords, editEntryId, username, password)
                  THEN Resync("overwritten", editEntryId) ELSE NoResync
    /\ UNCHANGED <<dbState, store, keyGen, sortColumn, sortDirection,
                   isAwaitingConfirmation, loaded>>

\* hideEditModal by the cancel or the close button.
EditCancelClick ==
    /\ dbState = "open"
    /\ editEntryId # NoId
    /\ editEntryId' = NoId
    /\ last' = "user"
    /\ resync' = NoResync
    /\ UNCHANGED <<dbState, store, keyGen, queue, currentPasswords, sortColumn,
                   sortDirection, isAwaitingConfirmation, loaded>>

\* put succeeded: updatePassword sets no onsuccess handler.
PutSuccess ==
    /\ HeadIs("put")
    /\ store' = StorePut(store, Head(queue).entry)
    /\ keyGen' = IF Head(queue).id >= keyGen THEN Head(queue).id + 1 ELSE keyGen
    /\ queue' = Tail(queue)
    /\ last' = "PutSuccess"
    /\ resync' = NoResync
    /\ UNCHANGED <<dbState, currentPasswords, sortColumn, sortDirection,
                   isAwaitingConfirmation, editEntryId, loaded>>

PutError ==
    /\ HeadIs("put")
    /\ queue' = ReloadAfterError(Tail(queue))
    /\ last' = "PutError"
    /\ resync' = IF resync.stage = "overwritten"
                  THEN Resync("putFailed", resync.id) ELSE NoResync
    /\ UNCHANGED <<dbState, store, keyGen, currentPasswords, sortColumn, sortDirection,
                   isAwaitingConfirmation, editEntryId, loaded>>

----------------------------------------------------------------------------
(* Clear all: the clear button, the confirmation modal and executeClearAll *)

\* clearAllPasswords: shows the modal and sets the pending flag.
ClearButtonClick ==
    /\ isAwaitingConfirmation' = IF dbState = "open" THEN TRUE ELSE isAwaitingConfirmation
    /\ last' = "user"
    /\ resync' = NoResync
    /\ UNCHANGED <<dbState, store, keyGen, queue, currentPasswords, sortColumn,
                   sortDirection, editEntryId, loaded>>

\* Faulty variant: the confirm listener does not test isAwaitingConfirmation.
ConfirmExecutesAlways(awaiting) == TRUE

\* Faulty variant: executeClearAll empties the list before the store answers.
ClearOptimisticEmpties(list) == <<>>

\* Whether the confirm button's listener calls executeClearAll.
ConfirmExecutes(awaiting) == awaiting

\* What executeClearAll does to the list before the store answers: nothing.
ClearOptimistic(list) == list

\* The confirm button: executeClearAll(); hideClearModal() when a request is pending.
ModalConfirmClick ==
    /\ dbState = "open"
    /\ IF ConfirmExecutes(isAwaitingConfirmation)
       THEN /\ Len(queue) < MaxQueue
            /\ queue' = Append(queue, Request("clear", NoId, NoEntry, <<>>))
            /\ currentPasswords' = ClearOptimistic(currentPasswords)
            /\ isAwaitingConfirmation' = FALSE
       ELSE UNCHANGED <<queue, currentPasswords, isAwaitingConfirmation>>
    /\ last' = "user"
    /\ resync' = NoResync
    /\ UNCHANGED <<dbState, store, keyGen, sortColumn, sortDirection, editEntryId, loaded>>

\* hideClearModal by the cancel or the close button.
ModalCancelClick ==
    /\ dbState = "open"
    /\ isAwaitingConfirmation' = FALSE
    /\ last' = "user"
    /\ resync' = NoResync
    /\ UNCHANGED <<dbState, store, keyGen, queue, currentPasswords, sortColumn,
                   sortDirection, editEntryId, loaded>>

\* A click on a modal's backdrop: hideClearModal(); hideEditModal().
BackdropClick ==
    /\ dbState = "open"
    /\ isAwaitingConfirmation \/ editEntryId # NoId
    /\ isAwaitingConfirmation' = FALSE
    /\ editEntryId' = NoId
    /\ last' = "user"
    /\ resync' = NoResync
    /\ UNCHANGED <<dbState, store, keyGen, queue, currentPasswords, sortColumn,
                   sortDirection, loaded>>

\* Faulty variant: the success handler leaves the list as it is.
ClearOnSuccessKeeps(list) == list

\* executeClearAll's request.onsuccess: the list becomes empty.
ClearOnSuccess(list) == <<>>

ClearSuccess ==
    /\ HeadIs("clear")
    /\ store' = {}
    /\ currentPasswords' = ClearOnSuccess(currentPasswords)
    /\ queue' = Tail(queue)
    /\ last' = "ClearSuccess"
    /\ resync' = NoResync
    /\ UNCHANGED <<dbState, keyGen, sortColumn, sortDirection,
                   isAwaitingConfirmation, editEntryId, loaded>>

\* executeClearAll's request.onerror: console.error and alert only.
ClearOnError(list) == list

ClearError ==
    /\ HeadIs("clear")
    /\ currentPasswords' = ClearOnError(currentPasswords)
    /\ queue' = Tail(queue)
    /\ last' = "ClearError"
    /\ resync' = NoResync
    /\ UNCHANGED <<dbState, store, keyGen, sortColumn, sortDirection,
                   isAwaitingConfirmation, editEntryId, loaded>>

----------------------------------------------------------------------------
(* Import: importPasswords' reader.onload *)

\* A null element of the imported array: it has no fields at all.
NullId == -1
NullCandidate == Entry(NullId, StrEmpty, StrEmpty, StrEmpty, NoTime)

\* The filter callback reads p.website of every element: on a null element it
\* throws a TypeError, which reader.onload's catch turns into an alert.
FilterThrows(imported) == \E i \in 1..Len(imported) : imported[i] = NullCandidate

\* filter(p => p.website && p.username && p.password)
ValidPasswords(imported) ==
    SelectSeq(imported, LAMBDA p : Truthy(p.website) /\ Truthy(p.username) /\ Truthy(p.password))

\* The alert reader.onload shows before it returns ("none": the transaction
\* was opened and the alert is left to its callbacks).
ImportAlert(imported) ==
    IF FilterThrows(imported) THEN "Error reading or parsing the file"
    ELSE IF Len(ValidPasswords(imported)) > 0 THEN "none"
    ELSE "No valid password entries found in the file"

\* Faulty variant: the valid records are pushed into the list at once.
ImportFileLoadedOptimistic(imported) ==
    LET validPasswords == ValidPasswords(imported)
    IN  /\ dbState = "open"
        /\ IF ~FilterThrows(imported) /\ Len(validPasswords) > 0
           THEN /\ CanIssue(Cardinality({i \in 1..Len(validPasswords) :
                                            validPasswords[i].id = NoId}))
                /\ queue' = Append(queue, Request("import", NoId, NoEntry, validPasswords))
                /\ currentPasswords' = currentPasswords \o validPasswords
           ELSE UNCHANGED <<queue, currentPasswords>>
        /\ last' = "user"
        /\ resync' = NoResync
        /\ UNCHANGED <<dbState, store, keyGen, sortColumn,
                       sortDirection, isAwaitingConfirmation, editEntryId, loaded>>

ImportFileLoaded(imported) ==
    LET validPasswords == ValidPasswords(imported)
    IN  /\ dbState = "open"
        /\ IF ~FilterThrows(imported) /\ Len(validPasswords) > 0
           THEN /\ CanIssue(Cardinality({i \in 1..Len(validPasswords) :
                                            validPasswords[i].id = NoId}))
                /\ queue' = Append(queue, Request("import", NoId, NoEntry, validPasswords))
           ELSE queue' = queue
        /\ last' = "user"
        /\ resync' = NoResync
        /\ UNCHANGED <<dbState, store, keyGen, currentPasswords, sortColumn,
                       sortDirection, isAwaitingConfirmation, editEntryId, loaded>>

\* transaction.oncomplete: alert, then loadPasswords().
ImportComplete ==
    /\ HeadIs("import")
    /\ LET r == StoreAddAll([store |-> store, keyGen |-> keyGen], Head(queue).values)
       IN  /\ r.ok
           /\ store' = r.store
           /\ keyGen' = r.keyGen
    /\ queue' = Append(Tail(queue), LoadRequest)
    /\ last' = "ImportComplete"
    /\ resync' = NoResync
    /\ UNCHANGED <<dbState, currentPasswords, sortColumn, sortDirection,
                   isAwaitingConfirmation, editEntryId, loaded>>

\* transaction.onerror: the transaction aborted, nothing of it is stored.
ImportError ==
    /\ HeadIs("import")
    /\ queue' = Tail(queue)
    /\ last' = "ImportError"
    /\ resync' = NoResync
    /\ UNCHANGED <<dbState, store, keyGen, currentPasswords, sortColumn, sortDirection,
                   isAwaitingConfirmation, editEntryId, loaded>>

----------------------------------------------------------------------------
(* Sorting by a click on a column header *)

SortClick(newSortColumn) ==
    /\ sortColumn' = newSortColumn
    /\ sortDirection' = IF newSortColumn = sortColumn
                        THEN (IF sortDirection = "asc" THEN "desc" ELSE "asc")
                        ELSE "asc"
    /\ currentPasswords' = SortList(currentPasswords, sortColumn', sortDirection')
    /\ last' = "user"
    /\ resync' = NoResync
    /\ UNCHANGED <<dbState, store, keyGen, queue, isAwaitingConfirmation,
                   editEntryId, loaded>>

----------------------------------------------------------------------------
(* The specification *)

Next ==
    \/ OpenSuccess
    \/ OpenError
    \/ LoadSuccess
    \/ LoadError
    \/ \E w \in WebsiteInputs, u \in UsernameInputs, p \in PasswordInputs, t \in Times :
          SaveClick(w, u, p, t)
    \/ AddSuccess
    \/ AddError
    \/ DeleteRowClick
    \/ DeleteSuccess
    \/ DeleteError
    \/ EditRowClick
    \/ \E e \in EditInputs : EditSaveClick(e[1], e[2])
    \/ EditCancelClick
    \/ PutSuccess
    \/ PutError
    \/ ClearButtonClick
    \/ ModalConfirmClick
    \/ ModalCancelClick
    \/ BackdropClick
    \/ ClearSuccess
    \/ ClearError
    \/ \E f \in ImportFiles : ImportFileLoaded(f)
    \/ ImportComplete
    \/ ImportError

Spec == Init /\ [][Next]_vars

\* The callbacks of the Store: the answer to the open request and to the
\* transaction at the head of the queue.
StoreAnswers ==
    \/ OpenSuccess \/ OpenError
    \/ LoadSuccess \/ LoadError
    \/ AddSuccess \/ AddError
    \/ DeleteSuccess \/ DeleteError
    \/ PutSuccess \/ PutError
    \/ ClearSuccess \/ ClearError
    \/ ImportComplete \/ ImportError

\* The program with a Store that eventually answers every call: an answer
\* that stays possible is eventually delivered.  The state space is kept small
\* with one input for each of the user's requests.
LiveSaveClick == SaveClick(StrA, StrU, StrP, 1)

LiveEditSaveClick == EditSaveClick(StrV, StrP)

LiveImportFile == ImportFileLoaded(<<Entry(NoId, StrA, StrU, StrP, 1)>>)

NextLive ==
    \/ OpenSuccess
    \/ OpenError
    \/ LoadSuccess
    \/ LoadError
    \/ LiveSaveClick
    \/ AddSuccess
    \/ AddError
    \/ DeleteRowClick
    \/ DeleteSuccess
    \/ DeleteError
    \/ EditRowClick
    \/ LiveEditSaveClick
    \/ PutSuccess
    \/ PutError
    \/ ClearButtonClick
    \/ ModalConfirmClick
    \/ ClearSuccess
    \/ ClearError
    \/ LiveImportFile
    \/ ImportComplete
    \/ ImportError

SpecLive == Init /\ [][NextLive]_vars /\ WF_vars(StoreAnswers)

\* The same without the assumption on the Store.
SpecLiveUnfair == Init /\ [][NextLive]_vars

----------------------------------------------------------------------------
(* A second specification: the Store answers every call with success (an     *)
(* Import still fails on a key that exists), and the inputs are richer: blank *)
(* form fields, two websites, files of several records, null elements, the   *)
(* file written by the JSON export, and clicks on the column headers.        *)

MaxFile == 2

FormWebsites  == {StrEmpty, StrSp, StrA, StrSpA, StrB}
FormUsernames == {StrU, StrSp}
FormPasswords == {StrP, StrEmpty, StrSp}

DataRecords ==
    { Entry(NoId, StrA, StrU, StrP, NoTime),
      Entry(NoId, StrEmpty, StrU, StrP, NoTime),
      Entry(NoId, StrA, StrU, StrEmpty, NoTime),
      NullCandidate }

DataFiles == SeqsUpTo(DataRecords, MaxFile)

\* JSON.stringify turns a Date into its ISO string: written here as the
\* negative of the time.  A string stays as it is, a missing value is missing.
DateToJSON(createdAt) == IF createdAt > NoTime THEN 0 - createdAt ELSE createdAt

\* exportPasswords followed by JSON.parse of the file: the entries with all
\* their properties, id included, and createdAt as text.
ExportedJSON(list) == [i \in 1..Len(list) |-> [list[i] EXCEPT !.createdAt = DateToJSON(@)]]

SaveAnyClick ==
    \E w \in FormWebsites, u \in FormUsernames, p \in FormPasswords, t \in Times :
        SaveClick(w, u, p, t)

ImportAnyFile == \E f \in DataFiles : ImportFileLoaded(f)

\* The user exports to JSON and imports the file just written.
ExportThenImport ==
    /\ currentPasswords # <<>>
    /\ ImportFileLoaded(ExportedJSON(currentPasswords))

SortHeaderClick == \E c \in Columns : SortClick(c)

NextData ==
    \/ OpenSuccess
    \/ LoadSuccess
    \/ SaveAnyClick
    \/ AddSuccess
    \/ DeleteRowClick
    \/ DeleteSuccess
    \/ SortHeaderClick
    \/ ImportAnyFile
    \/ ExportThenImport
    \/ ImportComplete
    \/ ImportError

SpecData == Init /\ [][NextData]_vars

----------------------------------------------------------------------------
(* Searching: filterPasswords and the search bar *)

\* String.prototype.includes
Includes(s, sub) ==
    \E i \in 0..(Len(s) - Len(sub)) : SubSeq(s, i + 1, i + Len(sub)) = sub

\* The list filterPasswords hands to renderPasswords for a term that is not
\* blank: the entries whose website or username contains the term.
FilteredList(list, term) ==
    SelectSeq(list, LAMBDA entry : \/ Includes(ToLowerCase(entry.website), term)
                                  \/ Includes(ToLowerCase(entry.username), term))

\* The predicate of the filter throws a TypeError when it calls toLowerCase
\* on a value that is not a string: the website of any entry, or the username
\* of an entry whose website does not contain the term.
FilterPredicateThrows(list, term) ==
    \E i \in 1..Len(list) :
        \/ ~IsString(list[i].website)
        \/ /\ ~Includes(ToLowerCase(list[i].website), term)
           /\ ~IsString(list[i].username)

\* What filterPasswords leaves in currentPasswords: a blank term calls
\* sortAndRenderPasswords, which sorts the list in place.
FilterCache(list, searchTerm, col, dir) ==
    LET term == Trim(ToLowerCase(searchTerm))
    IN  IF term = StrEmpty THEN SortList(list, col, dir) ELSE list

\* What filterPasswords leaves in the table; after a throw nothing is
\* rendered and the rows stay, here those of the list.
FilterShown(list, searchTerm, col, dir) ==
    LET term == Trim(ToLowerCase(searchTerm))
    IN  IF term = StrEmpty THEN SortList(list, col, dir)
        ELSE IF FilterPredicateThrows(list, term) THEN list
        ELSE FilteredList(list, term)

\* A keyup in the search bar.
FilterInput(searchTerm) ==
    /\ currentPasswords' = FilterCache(currentPasswords, searchTerm, sortColumn, sortDirection)
    /\ last' = "user"
    /\ resync' = NoResync
    /\ UNCHANGED <<dbState, store, keyGen, queue, sortColumn, sortDirection,
                   isAwaitingConfirmation, editEntryId, loaded>>

----------------------------------------------------------------------------
(* Delimited text: parseCSV and exportToCSV, and the later variants of both  *)

Comma == 44
Quote == 34
Backslash == 92
LF == 10
CR == 13
Tab == 9

KeyWebsite == <<119, 101, 98, 115, 105, 116, 101>>     \* "website"
KeyUsername == <<117, 115, 101, 114, 110, 97, 109, 101>>    \* "username"
KeyPassword == <<112, 97, 115, 115, 119, 111, 114, 100>>    \* "password"

\* String.prototype.split with a one-character separator.
RECURSIVE Split(_, _)
Split(s, sep) ==
    IF \A i \in 1..Len(s) : s[i] # sep THEN <<s>>
    ELSE LET first == CHOOSE k \in 1..Len(s) :
                          s[k] = sep /\ \A m \in 1..(k - 1) : s[m] # sep
         IN  <<SubSeq(s, 1, first - 1)>> \o Split(SubSeq(s, first + 1, Len(s)), sep)

\* Array.prototype.join
RECURSIVE Join(_, _)
Join(parts, sep) ==
    IF parts = <<>> THEN <<>>
    ELSE IF Len(parts) = 1 THEN parts[1]
    ELSE parts[1] \o sep \o Join(Tail(parts), sep)

TrimAll(values) == [i \in 1..Len(values) |-> Trim(values[i])]

\* The object filled by obj[headers[j]] = values[j] for j = 0, 1, ...: a later
\* column of the same name overwrites an earlier one.
RowObject(headers, values) ==
    [h \in Range(headers) |->
        values[CHOOSE j \in 1..Len(headers) :
                   headers[j] = h /\ \A k \in (j + 1)..Len(headers) : headers[k] # h]]

\* parseCSV of src/script.js.
ParseCSV(csv) ==
    LET lines == Split(csv, LF)
        headers == TrimAll(Split(lines[1], Comma))
        rows == [i \in 1..(Len(lines) - 1) |-> TrimAll(Split(lines[i + 1], Comma))]
        kept == SelectSeq(rows, LAMBDA values : Len(values) = Len(headers))
    IN  [i \in 1..Len(kept) |-> RowObject(headers, kept[i])]

\* A property of a parsed object; a missing one is undefined, which the
\* validity filter treats like the empty string.
Prop(obj, name) == IF name \in DOMAIN obj THEN obj[name] ELSE StrEmpty

\* The parsed objects as importPasswords reads them: website, username and
\* password, no id and no createdAt (the texts have no such columns).
CsvCandidates(parsed) ==
    [i \in 1..Len(parsed) |->
        Entry(NoId, Prop(parsed[i], KeyWebsite), Prop(parsed[i], KeyUsername),
              Prop(parsed[i], KeyPassword), NoTime)]

\* JSON.stringify of a string: in double quotes, with backslash escapes.
JSONEscape(c) ==
    IF c = Quote THEN <<Backslash, Quote>>
    ELSE IF c = Backslash THEN <<Backslash, Backslash>>
    ELSE IF c = LF THEN <<Backslash, 110>>
    ELSE IF c = CR THEN <<Backslash, 114>>
    ELSE IF c = Tab THEN <<Backslash, 116>>
    ELSE <<c>>

JSONStringify(s) ==
    <<Quote>> \o Join([i \in 1..Len(s) |-> JSONEscape(s[i])], <<>>) \o <<Quote>>

CsvHeaders == <<KeyWebsite, KeyUsername, KeyPassword>>

\* row[fieldName]
FieldOf(row, fieldName) ==
    IF fieldName = KeyWebsite THEN row.website
    ELSE IF fieldName = KeyUsername THEN row.username
    ELSE row.password

\* exportToCSV of src/script.js: the text of the file.
ExportToCSV(list) ==
    Join(<<Join(CsvHeaders, <<Comma>>)>> \o
         [i \in 1..Len(list) |->
             Join([j \in 1..Len(CsvHeaders) |->
                      JSONStringify(FieldOf(list[i], CsvHeaders[j]))],
                  <<Comma>>)],
         <<CR, LF>>)

\* The later parseCSV: csv.replace(/\r\n/g, '\n').replace(/\r/g, '\n')
RECURSIVE NormalizeLineEndings(_)
NormalizeLineEndings(csv) ==
    IF csv = <<>> THEN <<>>
    ELSE IF Head(csv) = CR
         THEN <<LF>> \o NormalizeLineEndings(
                  IF Len(csv) > 1 /\ csv[2] = LF THEN SubSeq(csv, 3, Len(csv))
                  ELSE Tail(csv))
    ELSE <<Head(csv)>> \o NormalizeLineEndings(Tail(csv))

\* The later parseCSV: the loop of parseRow from position i on.
RECURSIVE ParseRowFrom(_, _, _, _, _)
ParseRowFrom(row, i, cur, inQuotes, fields) ==
    IF i > Len(row) THEN Append(fields, cur)
    ELSE LET ch == row[i]
         IN  IF inQuotes
             THEN IF ch = Quote
                  THEN IF i + 1 <= Len(row) /\ row[i + 1] = Quote
                       THEN ParseRowFrom(row, i + 2, Append(cur, Quote), TRUE, fields)
                       ELSE ParseRowFrom(row, i + 1, cur, FALSE, fields)
                  ELSE ParseRowFrom(row, i + 1, Append(cur, ch), TRUE, fields)
             ELSE IF ch = Quote THEN ParseRowFrom(row, i + 1, cur, TRUE, fields)
             ELSE IF ch = Comma
                  THEN ParseRowFrom(row, i + 1, <<>>, FALSE, Append(fields, cur))
             ELSE ParseRowFrom(row, i + 1, Append(cur, ch), FALSE, fields)

ParseRow(row) == ParseRowFrom(row, 1, <<>>, FALSE, <<>>)

\* The later parseCSV (src/unnamed/part_000).
ParseCSVRobust(csv) ==
    IF csv = <<>> THEN <<>>
    ELSE LET lines == Split(NormalizeLineEndings(csv), LF)
             nonBlank == {i \in 1..Len(lines) : Trim(lines[i]) # StrEmpty}
         IN  IF nonBlank = {} THEN <<>>
             ELSE LET headerLineIndex == CHOOSE i \in nonBlank : \A k \in nonBlank : i <= k
                      headers == TrimAll(ParseRow(lines[headerLineIndex]))
                      dataLines == SelectSeq(SubSeq(lines, headerLineIndex + 1, Len(lines)),
                                             LAMBDA line : Trim(line) # StrEmpty)
                      rows == [i \in 1..Len(dataLines) |-> ParseRow(dataLines[i])]
                      kept == SelectSeq(rows, LAMBDA values : Len(values) = Len(headers))
                  IN  [i \in 1..Len(kept) |-> RowObject(headers, kept[i])]

\* csvEscape of the later variant, for a string.
CsvEscape(s) ==
    IF \E i \in 1..Len(s) : s[i] \in {Quote, Comma, LF}
    THEN <<Quote>> \o
         Join([i \in 1..Len(s) |-> IF s[i] = Quote THEN <<Quote, Quote>> ELSE <<s[i]>>], <<>>)
         \o <<Quote>>
    ELSE s

\* exportToCSV of the later variant: the text of the file.
ExportToCSVRobust(list) ==
    Join(<<Join(CsvHeaders, <<Comma>>)>> \o
         [i \in 1..Len(list) |->
             Join([j \in 1..Len(CsvHeaders) |->
                      CsvEscape(FieldOf(list[i], CsvHeaders[j]))],
                  <<Comma>>)],
         <<CR, LF>>)

----------------------------------------------------------------------------
(* A fourth specification, for the delimited text: entries whose values hold *)
(* commas, quotes and line breaks come in by a JSON import, the user imports *)
(* delimited texts and imports the file the delimited export has written.    *)

StrExampleCom == <<69, 120, 97, 109, 112, 108, 101, 46, 99, 111, 109>>     \* "Example.com"
StrUserOne == <<117, 115, 101, 114, 44, 111, 110, 101>>           \* "user,one"
StrPaQuoteSs == <<112, 97, 34, 115, 115>>            \* pa"ss
StrLines == <<112, LF, 113>>       \* "p", line feed, "q"

\* website,username,password
\* Example.com,"user,one","pa""ss"
ExampleCsv ==
    Join(CsvHeaders, <<Comma>>) \o <<LF>> \o <<69, 120, 97, 109, 112, 108, 101, 46, 99, 111, 109, 44, 34, 117, 115, 101, 114, 44, 111, 110, 101, 34, 44, 34, 112, 97, 34, 34, 115, 115, 34>>

\* website,username,password
\* a,u,p
PlainCsv == Join(CsvHeaders, <<Comma>>) \o <<LF>> \o <<97, Comma, 117, Comma, 112>>

CsvTexts == {ExampleCsv, PlainCsv}

\* Records of a JSON file: plain values, and a comma, a quote and a line feed
\* in one value each.
SeedRecords ==
    { Entry(NoId, StrA, StrU, StrP, NoTime),
      Entry(NoId, StrExampleCom, StrUserOne, StrP, NoTime),
      Entry(NoId, StrA, StrU, StrPaQuoteSs, NoTime),
      Entry(NoId, StrA, StrU, StrLines, NoTime) }

ImportSeedFile == \E r \in SeedRecords : ImportFileLoaded(<<r>>)

ImportCsvFile(csv) == ImportFileLoaded(CsvCandidates(ParseCSV(csv)))

ImportCsvText == \E csv \in CsvTexts : ImportCsvFile(csv)

\* The user exports to delimited text and imports the file just written.
ExportCsvThenImport ==
    /\ currentPasswords # <<>>
    /\ ImportCsvFile(ExportToCSV(currentPasswords))

NextCsv ==
    \/ OpenSuccess
    \/ LoadSuccess
    \/ ImportSeedFile
    \/ ImportCsvText
    \/ ExportCsvThenImport
    \/ ImportComplete
    \/ DeleteRowClick
    \/ DeleteSuccess

SpecCsv == Init /\ [][NextCsv]_vars

----------------------------------------------------------------------------
(* A third specification, for the table: two websites that differ only in    *)
(* case, edits of the username, clicks on the column headers, the search bar *)
(* and a deletePassword for an id that is nowhere.  The Store answers every  *)
(* call with success.                                                        *)

ViewWebsites == {StrA, StrCapA}
ViewEdits == {<<StrV, StrP>>, <<StrU, StrP>>}
SearchTerms == {StrEmpty, StrSp, StrCapA, StrV}

SaveViewClick == \E w \in ViewWebsites, t \in Times : SaveClick(w, StrU, StrP, t)

EditViewSave == \E input \in ViewEdits : EditSaveClick(input[1], input[2])

SearchKeyUp == \E term \in SearchTerms : FilterInput(term)

\* deletePassword called with an id that no entry of the Cache and no record
\* of the Store has.
DeleteAbsentCall ==
    \E id \in 1..MaxKey :
        /\ id \notin Ids(currentPasswords)
        /\ id \notin StoreIds(store)
        /\ DeleteClick(id)

NextView ==
    \/ OpenSuccess
    \/ LoadSuccess
    \/ SaveViewClick
    \/ AddSuccess
    \/ SortHeaderClick
    \/ EditRowClick
    \/ EditViewSave
    \/ PutSuccess
    \/ SearchKeyUp
    \/ DeleteRowClick
    \/ DeleteAbsentCall
    \/ DeleteSuccess

SpecView == Init /\ [][NextView]_vars

----------------------------------------------------------------------------
(* A fifth specification, for values that are not strings: JSON files whose  *)
(* records hold a number as website or username, the form, the column        *)
(* headers and the search bar.  The Store answers every call with success.   *)

TypedRecords ==
    { Entry(NoId, StrA, StrU, StrP, NoTime),
      Entry(NoId, NumFive, StrU, StrP, NoTime),
      Entry(NoId, StrB, NumFive, StrP, NoTime) }

TypedFiles == SeqsUpTo(TypedRecords, MaxFile)

TypedSearchTerms == {StrEmpty, StrCapA, StrSpA, StrU}

ImportTypedFile == \E f \in TypedFiles : ImportFileLoaded(f)

TypedSearchKeyUp == \E term \in TypedSearchTerms : FilterInput(term)

NextTyped ==
    \/ OpenSuccess
    \/ LoadSuccess
    \/ ImportTypedFile
    \/ ImportComplete
    \/ SaveViewClick
    \/ AddSuccess
    \/ SortHeaderClick
    \/ TypedSearchKeyUp
    \/ DeleteRowClick
    \/ DeleteSuccess

SpecTyped == Init /\ [][NextTyped]_vars

----------------------------------------------------------------------------
(* Vocabulary of the properties *)

\* Nothing is pending: every issued transaction has delivered its callback.
Quiescent == queue = <<>>

\* The step appended a request of this kind to the queue.
Issued(kind) ==
    /\ Len(queue') = Len(queue) + 1
    /\ queue'[Len(queue')].kind = kind

\* The step ran this store callback.
Answered(callback) == last' = callback /\ vars' # vars

Count(list, e) == Cardinality({i \in 1..Len(list) : list[i] = e})
SameEntries(l1, l2) == \A e \in Range(l1) \cup Range(l2) : Count(l1, e) = Count(l2, e)

EntriesWithId(list, id) == {e \in Range(list) : e.id = id}

----------------------------------------------------------------------------
(* C1 *)

\* C1: once a Load has succeeded, whenever no store operation is in flight the
\* entries of the Cache are exactly the records of the Store.
C1_CacheMirrorsStore ==
    (loaded /\ Quiescent) => Range(currentPasswords) = store

----------------------------------------------------------------------------
(* C2 *)

\* C2: no two entries of the Cache have the same id.
C2_UniqueIds ==
    \A i, j \in 1..Len(currentPasswords) :
        currentPasswords[i].id = currentPasswords[j].id => i = j

\* Two entries are in the Cache, one of them put there by an Add confirmation.
C2_Witness ==
    /\ Len(currentPasswords) = 2
    /\ last = "AddSuccess"

----------------------------------------------------------------------------
(* C3 *)

\* C3: processing an Add confirmation makes the Cache exactly one entry longer;
\* the new entry is the candidate (website, username, password) with the key
\* under which the Store has just stored it, and the other entries are kept.
C3_AddConfirmed ==
    [][Answered("AddSuccess") =>
          /\ Len(currentPasswords') = Len(currentPasswords) + 1
          /\ \E i \in 1..Len(currentPasswords') :
                LET new == currentPasswords'[i]
                    candidate == Head(queue).entry
                IN  /\ store' \ store = {new}
                    /\ new.id # NoId
                    /\ new.website = candidate.website
                    /\ new.username = candidate.username
                    /\ new.password = candidate.password
                    /\ SameEntries(Splice(currentPasswords', i), currentPasswords)
      ]_vars

\* An Add confirmation has been processed with another entry already in the Cache.
C3_Witness ==
    /\ last = "AddSuccess"
    /\ Len(currentPasswords) = 2
    /\ Range(currentPasswords) = store

----------------------------------------------------------------------------
(* C4 *)

\* C4: a failed Store delete triggers a Load; when that Load succeeds with no
\* other step in between, the Cache equals the Store and holds again the entry
\* that Delete had removed optimistically.
C4_DeleteFailureRestores ==
    /\ last = "DeleteError" => (queue # <<>> /\ queue[Len(queue)].kind = "getAll")
    /\ resync.stage = "reloadedAfterDelete" =>
          /\ Range(currentPasswords) = store
          /\ resync.id \in Ids(currentPasswords)

----------------------------------------------------------------------------
(* C5 *)

\* C5: an Update of an id in the Cache shows the new entry in the Cache, at the
\* entry's place, in the step of the request; a failed put triggers a Load; and
\* when that Load succeeds with no other step in between, the Cache holds for
\* that id exactly what the Store holds for it.
C5_UpdateOptimisticThenResync ==
    [][ /\ Issued("put") =>
              LET sent == queue'[Len(queue')].entry
                  index == FindIndex(currentPasswords, sent.id)
              IN  /\ index # 0
                  /\ currentPasswords' = [currentPasswords EXCEPT ![index] = sent]
                  /\ sent # currentPasswords[index]
        /\ Answered("PutError") =>
              /\ queue' = Append(Tail(queue), LoadRequest)
              /\ store' = store
        /\ resync'.stage = "reloadedAfterPut" =>
              EntriesWithId(currentPasswords', resync'.id) = {r \in store' : r.id = resync'.id}
      ]_vars

\* A put failed right after the optimistic overwrite, the Load it triggered has
\* succeeded, and the Store holds a record for the id.
C5_Witness ==
    /\ resync.stage = "reloadedAfterPut"
    /\ resync.id \in StoreIds(store)

----------------------------------------------------------------------------
(* C6 *)

\* C6: no put is sent for an id that is absent from the Cache at the time of
\* the call, and a put never creates a Store record: the put's id is a key of
\* the Store when the put is executed.
C6_UpdateNeverCreates ==
    [][ /\ Issued("put") => queue'[Len(queue')].id \in Ids(currentPasswords)
        /\ Answered("PutSuccess") => StoreIds(store') = StoreIds(store)
      ]_vars

----------------------------------------------------------------------------
(* C7 *)

\* C7: a Store clear is issued only by a step taken while a ClearAll request is
\* pending, and that step ends the request; a step that ends the request
\* without issuing the clear (cancel, close, backdrop) leaves Store, Cache and
\* the pending transactions as they are.
C7_ClearOnlyOnConfirm ==
    [][ /\ Issued("clear") => (isAwaitingConfirmation /\ ~isAwaitingConfirmation')
        /\ (isAwaitingConfirmation /\ ~isAwaitingConfirmation' /\ ~Issued("clear")) =>
              UNCHANGED <<store, currentPasswords, queue>>
      ]_vars

\* The confirmed clear is pending and the request is no longer awaiting confirmation.
C7_Witness ==
    /\ \E i \in 1..Len(queue) : queue[i].kind = "clear"
    /\ ~isAwaitingConfirmation
    /\ currentPasswords # <<>>

----------------------------------------------------------------------------
(* C8 *)

\* C8: when the success of a clear has been processed, Store and Cache are empty.
C8_ClearEmptiesBoth ==
    last = "ClearSuccess" => (store = {} /\ currentPasswords = <<>>)

\* A clear has succeeded while an Add issued around it is still in flight.
C8_Witness ==
    /\ last = "ClearSuccess"
    /\ HeadIs("add")
    /\ keyGen > 1

----------------------------------------------------------------------------
(* C9 *)

\* C9: the failure callback of an Add leaves the Cache and the Store unchanged
\* and issues no further request.
C9_AddFailureLeavesCache ==
    [][Answered("AddError") =>
          /\ currentPasswords' = currentPasswords
          /\ store' = store
          /\ queue' = Tail(queue)
      ]_vars

\* An Add has failed while the Cache held an entry.
C9_Witness ==
    /\ last = "AddError"
    /\ currentPasswords # <<>>

----------------------------------------------------------------------------
(* C10 *)

\* C10: the step that issues the clear leaves the Cache unchanged, and the
\* failure callback of the clear leaves Cache and Store unchanged and issues no
\* Load.
C10_ClearNotOptimistic ==
    [][ /\ Issued("clear") => currentPasswords' = currentPasswords
        /\ Answered("ClearError") =>
              /\ currentPasswords' = currentPasswords
              /\ store' = store
              /\ queue' = Tail(queue)
      ]_vars

\* A clear has failed and the Cache still holds its entries.
C10_Witness ==
    /\ last = "ClearError"
    /\ currentPasswords # <<>>
    /\ Range(currentPasswords) = store

----------------------------------------------------------------------------
(* C11 *)

----------------------------------------------------------------------------
(* C12 *)

\* C12: once opening the Store has failed, no transaction is ever pending and
\* the Cache and the Store stay empty, whatever the user does.
C12_OpenFailureIsFatal ==
    dbState = "failed" =>
        /\ queue = <<>>
        /\ currentPasswords = <<>>
        /\ store = {}

\* The open has failed and the user has acted since.
C12_Witness ==
    /\ dbState = "failed"
    /\ last = "user"

----------------------------------------------------------------------------
(* C14 *)

\* The callbacks that answer a failed Store call.
FailureCallbacks ==
    {"OpenError", "LoadError", "AddError", "DeleteError", "PutError", "ClearError",
     "ImportError"}

\* The callbacks whose handler calls alert().
AlertingCallbacks ==
    {"OpenError", "DeleteError", "PutError", "ClearSuccess", "ClearError",
     "ImportComplete", "ImportError"}

\* C14: every failure of a Store call is reported by an alert: the callback
\* that has just answered a failed call is one whose handler alerts.
C14_FailuresAreAlerted ==
    last \in FailureCallbacks => last \in AlertingCallbacks

----------------------------------------------------------------------------
(* C15 *)

\* C15: an id once assigned and since removed is never assigned again.  The
\* key generator is past every key ever stored (a key below keyGen was given to
\* a record by a committed transaction), so every record that an Add
\* confirmation or an Import completion puts under a new key gets a key that
\* is not below the generator.
C15_IdsNeverReused ==
    [][(Answered("AddSuccess") \/ Answered("ImportComplete")) =>
          \A r \in store' \ store : r.id >= keyGen
      ]_vars

----------------------------------------------------------------------------
(* C16 *)

\* C16: the records of an Import are stored under fresh ids, whatever id they
\* carry: the keys an Import completion adds to the Store are the next keys of
\* the generator, one per submitted record.
C16_ImportAssignsFreshIds ==
    [][Answered("ImportComplete") =>
          StoreIds(store') \ StoreIds(store) =
              keyGen .. (keyGen + Len(Head(queue).values) - 1)
      ]_vars

----------------------------------------------------------------------------
(* C13 *)

\* C13: with the database open, a click on the save button queues a Store add,
\* for the entry made of the trimmed website, the trimmed username and the
\* password as typed, exactly when the trimmed website, the trimmed username
\* and the untrimmed password are non-empty; otherwise nothing is queued; in
\* both cases the click leaves Cache and Store unchanged.
C13_AddOnlyWhenValid ==
    [][\A w \in FormWebsites, u \in FormUsernames, p \in FormPasswords, t \in Times :
          (dbState = "open" /\ SaveClick(w, u, p, t)) =>
              /\ IF Trim(w) # StrEmpty /\ Trim(u) # StrEmpty /\ p # StrEmpty
                 THEN /\ Issued("add")
                      /\ queue'[Len(queue')].entry = Entry(NoId, Trim(w), Trim(u), p, t)
                 ELSE queue' = queue
              /\ UNCHANGED <<store, currentPasswords>>
      ]_vars

\* An add is pending for a password that is a single blank, with a website
\* that was typed with a leading blank.
C13_Witness ==
    /\ last = "user"
    /\ \E i \in 1..Len(queue) :
          /\ queue[i].kind = "add"
          /\ queue[i].entry.password = StrSp
          /\ queue[i].entry.website = StrA

----------------------------------------------------------------------------
(* C17 *)

Triple(e) == <<e.website, e.username, e.password>>

\* C17: when the Store comes to execute an Import of the JSON export of the
\* Cache, the Import succeeds and stores, for every exported entry, a new
\* record with the entry's website, username and password.
C17_JsonRoundTrip ==
    (HeadIs("import") /\ Head(queue).values = ExportedJSON(currentPasswords)) =>
        LET r == StoreAddAll([store |-> store, keyGen |-> keyGen], Head(queue).values)
        IN  /\ r.ok
            /\ \A i \in 1..Len(currentPasswords) :
                  \E new \in r.store \ store : Triple(new) = Triple(currentPasswords[i])

----------------------------------------------------------------------------
(* C18 *)

\* Whether a candidate of an imported array has website, username and
\* password, all non-empty.
Complete(p) ==
    /\ p # NullCandidate
    /\ p.website # StrEmpty
    /\ p.username # StrEmpty
    /\ p.password # StrEmpty

\* C18: an Import of a file without any complete record queues nothing,
\* leaves Store and Cache unchanged and alerts that no valid entries were found.
C18_NoValidRecords ==
    [][\A f \in DataFiles :
          (ImportFileLoaded(f) /\ \A i \in 1..Len(f) : ~Complete(f[i])) =>
              /\ UNCHANGED <<queue, store, currentPasswords>>
              /\ ImportAlert(f) = "No valid password entries found in the file"
      ]_vars

----------------------------------------------------------------------------
(* C19 *)

\* C19: an Import queues one transaction with exactly the complete records of
\* the file, in the file's order, whatever other candidates the file holds;
\* it queues nothing only when the file has no complete record.
C19_ImportSubmitsCompleteRecords ==
    [][\A f \in DataFiles :
          ImportFileLoaded(f) =>
              LET complete == SelectSeq(f, Complete)
              IN  IF complete # <<>>
                  THEN /\ Issued("import")
                       /\ queue'[Len(queue')].values = complete
                  ELSE queue' = queue
      ]_vars

----------------------------------------------------------------------------
(* C20 *)

\* Ascending: no entry is followed by one whose lower-cased value of the
\* column is smaller; descending: by one whose value is greater.
OrderedBy(list, col, dir) ==
    \A i, j \in 1..Len(list) :
        i < j => IF dir = "asc"
                 THEN ~StrLess(ToLowerCase(list[j][col]), ToLowerCase(list[i][col]))
                 ELSE ~StrLess(ToLowerCase(list[i][col]), ToLowerCase(list[j][col]))

----------------------------------------------------------------------------
(* C28 *)

\* C28: the step that queues the Store delete of an id of the Cache has
\* already removed the entry from the Cache, and the step that queues the
\* Store put of an entry whose id is in the Cache has already put the entry
\* in its place; in both, the request is still waiting in the queue, so no
\* answer to it has been processed.
C28_OptimisticBeforeStoreCall ==
    [][ /\ (Issued("delete") /\ queue'[Len(queue')].id \in Ids(currentPasswords)) =>
              /\ currentPasswords' =
                     Splice(currentPasswords,
                            FindIndex(currentPasswords, queue'[Len(queue')].id))
              /\ queue'[Len(queue')].id \notin Ids(currentPasswords')
              /\ store' = store
        /\ (Issued("put") /\ queue'[Len(queue')].id \in Ids(currentPasswords)) =>
              /\ queue'[Len(queue')].entry \in Range(currentPasswords')
              /\ queue'[Len(queue')].entry \notin Range(currentPasswords)
              /\ store' = store
      ]_vars

\* A delete is waiting in the queue, its entry is gone from the Cache and
\* still in the Store, and another entry is left in the Cache.
C28_Witness ==
    /\ last = "user"
    /\ queue # <<>>
    /\ queue[Len(queue)].kind = "delete"
    /\ queue[Len(queue)].id \in StoreIds(store) \ Ids(currentPasswords)
    /\ currentPasswords # <<>>

----------------------------------------------------------------------------
(* C29 *)

\* C29: when the success of a Store delete is processed, the deleted id is
\* not in the Cache (the entry that Delete removed has not come back).
C29_DeletedStaysDeleted ==
    [][Answered("DeleteSuccess") => Head(queue).id \notin Ids(currentPasswords')]_vars

----------------------------------------------------------------------------
(* C25 *)

\* C25: a Delete of an id that neither the Cache nor the Store holds leaves
\* Cache and Store unchanged when it is requested, and the success with which
\* the Store answers it (the id still being absent) leaves Cache and Store
\* unchanged and queues no Load.
C25_DeleteOfAbsentId ==
    [][ /\ (/\ Issued("delete")
            /\ queue'[Len(queue')].id \notin Ids(currentPasswords)
            /\ queue'[Len(queue')].id \notin StoreIds(store)) =>
              UNCHANGED <<currentPasswords, store>>
        /\ (/\ Answered("DeleteSuccess")
            /\ Head(queue).id \notin Ids(currentPasswords)
            /\ Head(queue).id \notin StoreIds(store)) =>
              /\ queue' = Tail(queue)
              /\ UNCHANGED <<currentPasswords, store>>
      ]_vars

\* A delete of an id that is nowhere is waiting in the queue while the Cache
\* holds an entry.
C25_Witness ==
    /\ last = "user"
    /\ queue # <<>>
    /\ queue[Len(queue)].kind = "delete"
    /\ queue[Len(queue)].id \notin StoreIds(store)
    /\ queue[Len(queue)].id \notin Ids(currentPasswords)
    /\ currentPasswords # <<>>

----------------------------------------------------------------------------
(* C30 *)

----------------------------------------------------------------------------
(* C21, C22 *)

Directions == {"asc", "desc"}
Opposite(dir) == IF dir = "asc" THEN "desc" ELSE "asc"
Reverse(list) == [i \in 1..Len(list) |-> list[Len(list) + 1 - i]]

\* The case-insensitive values of the column are pairwise different.
DistinctKeys(list, col) ==
    \A i, j \in 1..Len(list) :
        i # j => ToLowerCase(list[i][col]) # ToLowerCase(list[j][col])

\* The entries of `before` with equal case-insensitive values in the column
\* stand in `after` in the relative order they have in `before`.
TiesKeepOrder(before, after, col) ==
    \A i, j \in 1..Len(before) :
        (i < j /\ ToLowerCase(before[i][col]) = ToLowerCase(before[j][col])) =>
            FindIndex(after, before[i].id) < FindIndex(after, before[j].id)

C22_SortIdempotentStable ==
    \A col \in Columns, dir \in Directions :
        LET once == SortList(currentPasswords, col, dir)
        IN  /\ SortList(once, col, dir) = once
            /\ SameEntries(once, currentPasswords)
            /\ TiesKeepOrder(currentPasswords, once, col)

\* The header clicks have sorted a Cache in which the website A, added after
\* the website a, stands before it: under website descending they compare
\* equal and stay as they stood.
C22_Witness ==
    /\ last = "user"
    /\ sortColumn = "website"
    /\ sortDirection = "desc"
    /\ Len(currentPasswords) = 2
    /\ currentPasswords[1].website = StrCapA
    /\ currentPasswords[2].website = StrA
    /\ currentPasswords[1].id > currentPasswords[2].id

----------------------------------------------------------------------------
(* C23, C24 *)

\* C23: the table shows the Cache; whatever term is typed into the search
\* bar, clearing the search bar afterwards shows the Cache as it stood.
C23_FilterThenClearRestores ==
    \A term \in SearchTerms :
        FilterShown(FilterCache(currentPasswords, term, sortColumn, sortDirection),
                    StrEmpty, sortColumn, sortDirection) = currentPasswords

\* C24: a keyup in the search bar, whatever the term, leaves the Cache as it
\* is.
C24_FilterLeavesCache ==
    [][\A term \in SearchTerms : FilterInput(term) => UNCHANGED currentPasswords]_vars

----------------------------------------------------------------------------
(* C26, C27 *)

ExampleRecord ==
    (KeyWebsite :> StrExampleCom) @@ (KeyUsername :> StrUserOne)
        @@ (KeyPassword :> StrPaQuoteSs)

\* C26: importing the text website,username,password / Example.com,"user,one",
\* "pa""ss" submits exactly one record, with the website Example.com, the
\* username user,one and the password pa"ss: parseCSV yields that one record.
C26_QuotedRowParsed ==
    [][ImportCsvFile(ExampleCsv) =>
          /\ ParseCSV(ExampleCsv) = <<ExampleRecord>>
          /\ Issued("import")
          /\ Len(queue'[Len(queue')].values) = 1
          /\ Triple(queue'[Len(queue')].values[1])
                 = <<StrExampleCom, StrUserOne, StrPaQuoteSs>>
      ]_vars

\* The later parseCSV yields the one record of C26 for the text of C26.
LaterParserReadsQuotedRow == ParseCSVRobust(ExampleCsv) = <<ExampleRecord>>

\* The website, username and password of each parsed object, in order.
ParsedTriples(parsed) ==
    [i \in 1..Len(parsed) |->
        <<Prop(parsed[i], KeyWebsite), Prop(parsed[i], KeyUsername),
          Prop(parsed[i], KeyPassword)>>]

CacheTriples == [i \in 1..Len(currentPasswords) |-> Triple(currentPasswords[i])]

\* C27: parsing the text the delimited export writes for the Cache yields one
\* record per entry, in order, with the entry's website, username and password.
C27_CsvRoundTrip ==
    currentPasswords # <<>> =>
        ParsedTriples(ParseCSV(ExportToCSV(currentPasswords))) = CacheTriples

\* The same for the later exportToCSV and parseCSV.
LaterCsvRoundTrip ==
    currentPasswords # <<>> =>
        ParsedTriples(ParseCSVRobust(ExportToCSVRobust(currentPasswords))) = CacheTriples

\* The same for the later variants and a Cache without a line break in a value.
LaterCsvRoundTripOneLine ==
    (/\ currentPasswords # <<>>
     /\ \A i \in 1..Len(currentPasswords) :
            \A v \in {currentPasswords[i].website, currentPasswords[i].username,
                      currentPasswords[i].password} :
                \A k \in 1..Len(v) : v[k] \notin {LF, CR}) =>
        ParsedTriples(ParseCSVRobust(ExportToCSVRobust(currentPasswords))) = CacheTriples

----------------------------------------------------------------------------
(* C31 *)

\* C31: every entry of the Cache has an id the Store has given out, the
\* candidate of a pending add has none, and the steps that queue an add leave
\* the Cache as it is: no entry without an id is ever in the Cache.
C31_CacheIdsAssigned ==
    /\ \A i \in 1..Len(currentPasswords) :
           /\ currentPasswords[i].id # NoId
           /\ currentPasswords[i].id \in 1..(keyGen - 1)
    /\ \A k \in 1..Len(queue) :
           queue[k].kind = "add" =>
               /\ queue[k].entry.id = NoId
               /\ queue[k].entry \notin Range(currentPasswords)

\* An add has been confirmed and its entry is in the Cache while a second add
\* is still pending.
C31_Witness ==
    /\ last = "AddSuccess"
    /\ currentPasswords # <<>>
    /\ queue # <<>>
    /\ Head(queue).kind = "add"

----------------------------------------------------------------------------
(* C32 *)

\* C32: the step that submits an import leaves Cache and Store as they are;
\* its completion leaves the Cache as it is and queues the Load; its error
\* leaves Cache, Store and key generator as they are and queues nothing.
C32_ImportOnlyThroughLoad ==
    [][ /\ Issued("import") => UNCHANGED <<currentPasswords, store>>
        /\ Answered("ImportComplete") =>
              /\ UNCHANGED currentPasswords
              /\ queue' = Append(Tail(queue), LoadRequest)
        /\ Answered("ImportError") =>
              /\ UNCHANGED <<currentPasswords, store, keyGen>>
              /\ queue' = Tail(queue)
      ]_vars

\* An import has failed with entries in the Cache, and nothing is in flight.
C32_Witness ==
    /\ last = "ImportError"
    /\ queue = <<>>
    /\ currentPasswords # <<>>

----------------------------------------------------------------------------
(* C33 *)

\* C33: the step that sends an update overwrites one entry of the Cache with
\* the record it sends; that record has the id, website and createdAt the
\* entry had, and every other entry stays where it was.
C33_EditChangesUsernameAndPassword ==
    [][Issued("put") =>
          LET sent == queue'[Len(queue')].entry
              index == FindIndex(currentPasswords, sent.id)
          IN  /\ index # 0
              /\ Len(currentPasswords') = Len(currentPasswords)
              /\ currentPasswords'[index] = sent
              /\ sent.id = currentPasswords[index].id
              /\ sent.website = currentPasswords[index].website
              /\ sent.createdAt = currentPasswords[index].createdAt
              /\ \A i \in 1..Len(currentPasswords) :
                     i # index => currentPasswords'[i] = currentPasswords[i]
      ]_vars

\* An update with a new username is pending, its entry stands second in a
\* Cache of two.
C33_Witness ==
    /\ last = "user"
    /\ queue # <<>>
    /\ queue[Len(queue)].kind = "put"
    /\ Len(currentPasswords) = 2
    /\ currentPasswords[2] = queue[Len(queue)].entry
    /\ currentPasswords[2].username = StrV

----------------------------------------------------------------------------
(* C34 *)

\* The edit-save listener's reasons not to save: nothing changed, or the
\* trimmed username or the password is empty.
EditBlocked(username, password) ==
    LET index == FindIndex(currentPasswords, editEntryId)
    IN  /\ index # 0
        /\ \/ /\ Trim(username) = currentPasswords[index].username
              /\ password = currentPasswords[index].password
           \/ Trim(username) = StrEmpty
           \/ password = StrEmpty

\* C34: an edit-save without a change, or with an empty username or password,
\* queues no Store call and leaves Cache and Store as they are.
C34_BlockedEditSave ==
    [][\A input \in EditInputs :
          (EditSaveClick(input[1], input[2]) /\ EditBlocked(input[1], input[2])) =>
              UNCHANGED <<queue, currentPasswords, store>>
      ]_vars

\* The modal is still open on an entry of the Cache after a click, and nothing
\* is in flight: so it stands after a save with an empty password.
C34_Witness ==
    /\ last = "user"
    /\ editEntryId # NoId
    /\ FindIndex(currentPasswords, editEntryId) # 0
    /\ queue = <<>>

----------------------------------------------------------------------------
(* C38 *)

\* C38: whenever nothing is in flight, the Cache is ordered by the current
\* sort column and direction.
C38_QuiescentCacheOrdered ==
    Quiescent => OrderedBy(currentPasswords, sortColumn, sortDirection)

----------------------------------------------------------------------------
(* C35, C36 *)

\* The value is a string that contains the term, compared in lower case.
ContainsTerm(value, term) == IsString(value) /\ Includes(ToLowerCase(value), term)

\* C35: for every term that is not blank, the search shows exactly the entries
\* of the Cache whose website or username contains the term (trimmed, in lower
\* case), in the order of the Cache.
C35_FilterShowsMatches ==
    \A searchTerm \in TypedSearchTerms :
        LET term == Trim(ToLowerCase(searchTerm))
        IN  term # StrEmpty =>
                /\ ~FilterPredicateThrows(currentPasswords, term)
                /\ FilterShown(currentPasswords, searchTerm, sortColumn, sortDirection)
                       = SelectSeq(currentPasswords,
                                   LAMBDA entry : \/ ContainsTerm(entry.website, term)
                                                  \/ ContainsTerm(entry.username, term))

\* C36: whatever the Cache holds, a sort of it by either column completes.
C36_SortCompletes ==
    \A col \in Columns : ~SortThrows(currentPasswords, col)

----------------------------------------------------------------------------
(* C37 *)

\* No operation is in flight: the open request is answered and no transaction
\* is pending.
Idle == dbState # "opening" /\ queue = <<>>

\* C37: a failed delete or put queues exactly one Load, a failed Load or add
\* queues nothing; and either the user goes on acting for ever, or from some
\* moment on no operation is in flight.
C37_AnswersProcessedNoRetry ==
    /\ [][ /\ (Answered("DeleteError") \/ Answered("PutError")) =>
                 queue' = Append(Tail(queue), LoadRequest)
           /\ (Answered("LoadError") \/ Answered("AddError")) =>
                 queue' = Tail(queue)
         ]_vars
    /\ ([]<><<last' = "user">>_vars) \/ (<>[]Idle)

\* A Load later than the first has failed, entries are in the Cache, and
\* nothing is in flight.
C37_Witness ==
    /\ last = "LoadError"
    /\ loaded
    /\ currentPasswords # <<>>
    /\ Idle

====
